---- MODULE Spec2Model ----
(***************************************************************************)
(* PDF2MarkdownApp, pdf2md_dnick/pdf_converter: the model registry         *)
(* (ocr_registry.py), the conversion view (views.py), the per-page         *)
(* composition (ocr_models.py), the markdown post-processor                *)
(* (views.normalize_markdown_spacing), the direct-document conversion     *)
(* with its image export (pdf_to_text_model.py, ocr_service.py), and the   *)
(* temporary storage of a conversion call (pdf_models_marker.py,           *)
(* pdf_to_text_model.py, ocr_models.py, pdf_pages.py).                     *)
(*                                                                         *)
(* A Python str is a sequence of atoms.  An atom is one character, or a    *)
(* run of characters that no pattern of the modelled code splits or        *)
(* inspects ("marker", ".png").  Whitespace, the line-ending characters,   *)
(* U+00A0 ("NBSP") and the zero-width characters ("ZWSP", ...) are always  *)
(* atoms of their own.                                                     *)
(***************************************************************************)
EXTENDS Integers, Sequences, FiniteSets, TLC

VARIABLES
    registry,   \* ocr_registry._REGISTRY, in insertion order
    env,        \* what the deployment lacks: modules, credentials
    last,       \* the last call made on the registry or the view, and its outcome
    doc,        \* per-page run: what predict_image does on each page of the PDF
    pc,         \* per-page run: where ImageOCRPDFModel.run_on_pdf is
    idx,        \* per-page run: the loop's idx
    out,        \* per-page run: the list out
    calls,      \* per-page run: the pages predict_image was called on, in order
    result,     \* per-page run: what run_on_pdf returned
    raw,        \* post-processor: the text it is given
    stage,      \* post-processor: how many times it was applied
    once,       \* post-processor: normalize(raw)
    twice,      \* post-processor: normalize(normalize(raw))
    pieces,     \* direct conversion: the markdown the converter produced, in pieces
    images,     \* direct conversion: the converter's images dict, in insertion order
    ipc,        \* direct conversion: where pdf_bytes_to_markdown is
    pos,        \* direct conversion: the place of the loop in images
    images_dir, \* direct conversion: the local images_dir, <<>> for None
    dirs,       \* direct conversion: the directories on disk
    files,      \* direct conversion: the image files on disk
    saved_names,\* direct conversion: the list saved_names
    converted,  \* direct conversion: what pdf_bytes_to_markdown returned
    ocr_map,    \* OCR overlay: filename -> text, as a set of pairs
    injected,   \* OCR overlay: what inject_ocr_into_markdown returned
    fn,         \* temporary storage: the conversion function being called
    tpc,        \* temporary storage: where that call is
    tmp_path,   \* temporary storage: the local tmp_path, <<>> for None
    td,         \* temporary storage: the temporary directory td, <<>> before it
    pages,      \* temporary storage: the list pages of pdf_bytes_to_page_images
    temps,      \* temporary storage: the temporary paths on disk
    exit        \* temporary storage: how the call left, "return" or "raise"

regVars == <<registry, env, last>>

pageVars == <<doc, pc, idx, out, calls, result>>

normVars == <<raw, stage, once, twice>>

imgVars ==
    <<pieces, images, ipc, pos, images_dir, dirs, files, saved_names, converted,
      ocr_map, injected>>

tmpVars == <<fn, tpc, tmp_path, td, pages, temps, exit>>

vars == <<regVars, pageVars, normVars, imgVars, tmpVars>>

TmpIdle ==
    /\ fn = ""
    /\ tpc = "off"
    /\ tmp_path = <<>>
    /\ td = <<>>
    /\ pages = <<>>
    /\ temps = {}
    /\ exit = ""

ImgIdle ==
    /\ pieces = <<>>
    /\ images = <<>>
    /\ ipc = "off"
    /\ pos = 0
    /\ images_dir = <<>>
    /\ dirs = {}
    /\ files = {}
    /\ saved_names = <<>>
    /\ converted = <<>>
    /\ ocr_map = {}
    /\ injected = <<>>

PageIdle ==
    /\ doc = <<>>
    /\ pc = "off"
    /\ idx = 0
    /\ out = <<>>
    /\ calls = <<>>
    /\ result = <<>>

NormIdle ==
    /\ raw = <<>>
    /\ stage = 0
    /\ once = <<>>
    /\ twice = <<>>


-----------------------------------------------------------------------------
(* Python str helpers *)

\* str.isspace() of one character, for the characters of the model
IsSpace(c) == c \in {" ", "\t", "\n", "\r", "NBSP"}

\* the elements of s whose index satisfies Keep
KeepIdx(s, Keep(_)) ==
    LET F[i \in 0..Len(s)] ==
            IF i = 0 THEN <<>>
            ELSE IF Keep(i) THEN Append(F[i - 1], s[i]) ELSE F[i - 1]
    IN  F[Len(s)]

\* str.strip()
Strip(s) ==
    LET Solid == {i \in 1..Len(s) : ~IsSpace(s[i])}
    IN  IF Solid = {} THEN <<>>
        ELSE LET lo == CHOOSE i \in Solid : \A j \in Solid : i <= j
                 hi == CHOOSE i \in Solid : \A j \in Solid : j <= i
             IN  SubSeq(s, lo, hi)

\* str.lower() of one atom
LowerAtom(c) ==
    CASE c = "M" -> "m"
      [] c = "E" -> "e"
      [] c = "A" -> "a"
      [] c = "B" -> "b"
      [] c = "O" -> "o"
      [] c = "P" -> "p"
      [] c = ".PDF" -> ".pdf"
      [] c = ".PNG" -> ".png"
      [] OTHER -> c

\* str.lower()
Lower(s) == [i \in 1..Len(s) |-> LowerAtom(s[i])]

\* the code point order of the characters labels are made of
Ord(c) ==
    CASE c = "A" -> 65
      [] c = "B" -> 66
      [] c = "E" -> 69
      [] c = "M" -> 77
      [] c = "O" -> 79
      [] c = "P" -> 80
      [] c = "a" -> 97
      [] c = "b" -> 98
      [] c = "e" -> 101
      [] c = "m" -> 109
      [] c = "o" -> 111
      [] c = "p" -> 112
      [] OTHER -> 0

\* a < b on str: lexicographic by code point
StrLess(a, b) ==
    \E i \in 1..Len(b) :
        /\ \A j \in 1..(i - 1) : j <= Len(a) /\ a[j] = b[j]
        /\ \/ i = Len(a) + 1
           \/ i <= Len(a) /\ Ord(a[i]) < Ord(b[i])

\* sub in s
Contains(s, sub) ==
    \E i \in 0..(Len(s) - Len(sub)) : SubSeq(s, i + 1, i + Len(sub)) = sub

\* s.endswith(suf)
EndsWith(s, suf) ==
    Len(s) >= Len(suf) /\ SubSeq(s, Len(s) - Len(suf) + 1, Len(s)) = suf

-----------------------------------------------------------------------------
(* Exceptions *)

NoExc == [type |-> "", msg |-> <<>>]

Raise(t, m) == [type |-> t, msg |-> m]

\* str(e): KeyError shows the repr of its argument, the others the message
StrOfExc(e) ==
    IF e.type = "KeyError" THEN <<"'">> \o e.msg \o <<"'">> ELSE e.msg

-----------------------------------------------------------------------------
(* The extractor classes of ocr_models.py *)

Classes == {"EasyOCRModel", "PyTesseractModel", "OpenAIVisionOCRModel", "MarkerModel"}

\* what a deployment can lack: importable modules, credentials
Deps == {"easyocr", "pytesseract", "OPENAI_API_KEY"}

\* cls(): the constructor's outcome in a deployment that lacks e
Construct(cls, e) ==
    IF cls = "EasyOCRModel" /\ "easyocr" \in e
    THEN [exc |-> Raise("ModuleNotFoundError", <<"No module named '", "easyocr", "'">>),
          inst |-> ""]
    ELSE IF cls = "PyTesseractModel" /\ "pytesseract" \in e
    THEN [exc |-> Raise("ModuleNotFoundError",
                        <<"No module named '", "py", "tesseract", "'">>),
          inst |-> ""]
    ELSE IF cls = "OpenAIVisionOCRModel" /\ "OPENAI_API_KEY" \in e
    THEN [exc |-> Raise("RuntimeError", <<"OPENAI_API_KEY is not set">>), inst |-> ""]
    ELSE [exc |-> NoExc, inst |-> cls]

\* the methods an instance of cls has
Methods(cls) ==
    IF cls = "MarkerModel" THEN {"run_on_pdf"}
    ELSE {"run_on_pdf", "predict_image"}

-----------------------------------------------------------------------------
(* ocr_registry.py *)

HasKey(reg, k) == \E i \in 1..Len(reg) : reg[i].key = k

Entry(reg, k) == reg[CHOOSE i \in 1..Len(reg) : reg[i].key = k]

RegKeys(reg) == {reg[i].key : i \in 1..Len(reg)}

\* a registration that replaces the entry of a key already present
register_model_overwrite(reg, key, label, cls) ==
    LET k == Strip(key) IN
    IF k = <<>>
    THEN [registry |-> reg, exc |-> Raise("ValueError", <<"Model key cannot be empty">>)]
    ELSE IF HasKey(reg, k)
    THEN [registry |-> [i \in 1..Len(reg) |->
                            IF reg[i].key = k
                            THEN [key |-> k, cls |-> cls, label |-> label]
                            ELSE reg[i]],
          exc |-> NoExc]
    ELSE [registry |-> Append(reg, [key |-> k, cls |-> cls, label |-> label]),
          exc |-> NoExc]

\* register_model(key, label)(cls)
register_model(reg, key, label, cls) ==
    LET k == Strip(key) IN
    IF k = <<>>
    THEN [registry |-> reg, exc |-> Raise("ValueError", <<"Model key cannot be empty">>)]
    ELSE IF HasKey(reg, k)
    THEN [registry |-> reg,
          exc |-> Raise("ValueError", <<"Model key already registered: ">> \o k)]
    ELSE [registry |-> Append(reg, [key |-> k, cls |-> cls, label |-> label]),
          exc |-> NoExc]

ModelInfo(e) == [key |-> e.key, label |-> e.label]

LabelLess(x, y) == StrLess(Lower(x.label), Lower(y.label))

\* one step of the stable sort: x goes after every element not greater than it
InsertSorted(sorted, x) ==
    LET p == Cardinality({i \in 1..Len(sorted) : ~LabelLess(x, sorted[i])})
    IN  SubSeq(sorted, 1, p) \o <<x>> \o SubSeq(sorted, p + 1, Len(sorted))

\* items.sort(key=lambda x: x.label.lower()): stable, ascending
SortByLabel(s) ==
    LET F[i \in 0..Len(s)] ==
            IF i = 0 THEN <<>> ELSE InsertSorted(F[i - 1], s[i])
    IN  F[Len(s)]

\* list_models()
list_models(reg) ==
    SortByLabel([i \in 1..Len(reg) |-> ModelInfo(reg[i])])

\* create_model(key)
create_model(reg, key, e) ==
    IF ~HasKey(reg, key)
    THEN [exc |-> Raise("KeyError", <<"Unknown model: ">> \o key), inst |-> ""]
    ELSE Construct(Entry(reg, key).cls, e)

\* a listing with no try/except around create_model
safe_list_models_unguarded(reg, e) ==
    LET all == list_models(reg)
        Failing == {i \in 1..Len(all) : create_model(reg, all[i].key, e).exc # NoExc}
    IN  IF Failing = {} THEN [exc |-> NoExc, infos |-> all]
        ELSE [exc |-> create_model(reg,
                                   all[CHOOSE i \in Failing : \A j \in Failing : i <= j].key,
                                   e).exc,
              infos |-> <<>>]

\* safe_list_models()
safe_list_models(reg, e) ==
    LET all == list_models(reg)
        Ok(i) == create_model(reg, all[i].key, e).exc = NoExc
    IN  [exc |-> NoExc, infos |-> KeepIdx(all, Ok)]

-----------------------------------------------------------------------------
(* views.py *)

ZeroWidth == {"ZWSP", "ZWNJ", "ZWJ", "BOM"}

\* s.replace("\r\n", "\n")
ReplaceCRLF(s) ==
    LET Keep(i) == ~(s[i] = "\r" /\ i < Len(s) /\ s[i + 1] = "\n")
    IN  KeepIdx(s, Keep)

\* s.replace(old, new) for one-character old and new
ReplaceChar(s, old, new) == [i \in 1..Len(s) |-> IF s[i] = old THEN new ELSE s[i]]

\* re.sub(r"[\u200B-\u200D\uFEFF]", "", s)
DropZeroWidth(s) ==
    LET Keep(i) == s[i] \notin ZeroWidth
    IN  KeepIdx(s, Keep)

\* re.sub(r"[ \t]+\n", "\n", s)
TrimBeforeNewline(s) ==
    LET Keep(i) ==
            ~(/\ s[i] \in {" ", "\t"}
              /\ \E j \in (i + 1)..Len(s) :
                    /\ s[j] = "\n"
                    /\ \A m \in i..(j - 1) : s[m] \in {" ", "\t"})
    IN  KeepIdx(s, Keep)

\* re.sub(r"\n{2,}", "\n", s)
CollapseNewlines(s) ==
    LET Keep(i) == ~(s[i] = "\n" /\ i > 1 /\ s[i - 1] = "\n")
    IN  KeepIdx(s, Keep)

\* the post-processor with blank lines collapsed before trailing blanks are trimmed
normalize_collapse_first(s) ==
    Strip(TrimBeforeNewline(CollapseNewlines(DropZeroWidth(
        ReplaceChar(ReplaceChar(ReplaceCRLF(s), "\r", "\n"), "NBSP", " ")))))

\* normalize_markdown_spacing(s)
normalize_markdown_spacing(s) ==
    Strip(CollapseNewlines(TrimBeforeNewline(DropZeroWidth(
        ReplaceChar(ReplaceChar(ReplaceCRLF(s), "\r", "\n"), "NBSP", " ")))))

\* JsonResponse({"error": msg}, status=status)
ErrorResponse(status, msg) ==
    [status |-> status, error |-> msg, markdown |-> <<>>, preview_html |-> <<>>]

\* md.markdown(text, ...): the rendering of a non-empty text is non-empty
Markdown(text) == IF text = <<>> THEN <<>> ELSE <<"<p>">> \o text \o <<"</p>">>

\* model.predict(pdf_bytes): attribute lookup on the instance, then the call;
\* text is what the extractor returns for the uploaded document
CallPredict(inst, text) ==
    IF "predict" \in Methods(inst)
    THEN [exc |-> NoExc, text |-> text]
    ELSE [exc |-> Raise("AttributeError",
                        <<"'", inst, "' object has no attribute '", "predict", "'">>),
          text |-> <<>>]

\* the except clause of convert_pdf
ConversionFailed(e) ==
    IF Contains(StrOfExc(e), <<"tesseract">>)
    THEN ErrorResponse(500, <<"PyTesseract is not installed.\nType this into the terminal:\nbrew install tesseract-lang">>)
    ELSE ErrorResponse(500, <<"Conversion failed: ">> \o StrOfExc(e))

\* convert_pdf(request)
convert_pdf(reg, e, file, key, text) ==
    LET model_key == Strip(key) IN
    IF ~file.present THEN ErrorResponse(400, <<"No PDF uploaded.">>)
    ELSE IF ~EndsWith(Lower(file.name), <<".pdf">>)
    THEN ErrorResponse(400, <<"File must be a PDF.">>)
    ELSE IF model_key = <<>> THEN ErrorResponse(400, <<"Please select a model.">>)
    ELSE LET made == create_model(reg, model_key, e) IN
         IF made.exc # NoExc THEN ConversionFailed(made.exc)
         ELSE LET ran == CallPredict(made.inst, text) IN
              IF ran.exc # NoExc THEN ConversionFailed(ran.exc)
              ELSE LET normalized == normalize_markdown_spacing(ran.text) IN
                   [status |-> 200, error |-> <<>>, markdown |-> normalized,
                    preview_html |-> Markdown(normalized)]

-----------------------------------------------------------------------------
(* The calls the model makes: inputs *)

RawKeys ==
    { <<"marker">>, <<" ", "marker", "\n">>, <<"py", "tesseract", "_eng">>,
      <<"openai_vision">>, <<" ", "\t">> }

Labels == { <<"M">>, <<"e">> }

\* the keys a request can carry
RequestKeys == RawKeys \cup { <<"tesseract">> }

NoFile == [present |-> FALSE, name |-> <<>>]

Files ==
    { NoFile,
      [present |-> TRUE, name |-> <<"scan", ".pdf">>],
      [present |-> TRUE, name |-> <<"scan", ".PDF">>],
      [present |-> TRUE, name |-> <<"scan", ".txt">>] }

\* what an extractor returns for the uploaded documents
Texts ==
    { <<"## Page 1", "\n", "A", "\r", "\n", "\n", "## Page 2", "\n", "B", " ", "\n">>,
      <<"A">> }

NoResp == [status |-> 0, error |-> <<>>, markdown |-> <<>>, preview_html |-> <<>>]

NoCall ==
    [op |-> "", key |-> <<>>, label |-> <<>>, cls |-> "", file |-> NoFile,
     text |-> <<>>, exc |-> NoExc, inst |-> "", infos |-> <<>>, resp |-> NoResp]

RegIdle ==
    /\ registry = <<>>
    /\ env = {}
    /\ last = NoCall

RegInit == RegIdle /\ PageIdle /\ NormIdle /\ ImgIdle /\ TmpIdle

\* a back-end is registered (at import of ocr_models, or later)
Register(key, label, cls) ==
    LET r == register_model(registry, key, label, cls) IN
    /\ registry' = r.registry
    /\ last' = [NoCall EXCEPT !.op = "register", !.key = key, !.label = label,
                              !.cls = cls, !.exc = r.exc]
    /\ UNCHANGED <<env, pageVars, normVars, imgVars, tmpVars>>

\* a caller resolves a key
Resolve(key) ==
    LET r == create_model(registry, key, env) IN
    /\ last' = [NoCall EXCEPT !.op = "resolve", !.key = key, !.exc = r.exc,
                              !.inst = r.inst]
    /\ UNCHANGED <<registry, env, pageVars, normVars, imgVars, tmpVars>>

ListAll ==
    /\ last' = [NoCall EXCEPT !.op = "list_all", !.infos = list_models(registry)]
    /\ UNCHANGED <<registry, env, pageVars, normVars, imgVars, tmpVars>>

\* views.ocr_models_api
ListAvailable ==
    LET r == safe_list_models(registry, env) IN
    /\ last' = [NoCall EXCEPT !.op = "list_available", !.exc = r.exc,
                              !.infos = r.infos]
    /\ UNCHANGED <<registry, env, pageVars, normVars, imgVars, tmpVars>>

\* a request reaches views.convert_pdf
Convert(file, key, text) ==
    /\ last' = [NoCall EXCEPT !.op = "convert", !.file = file, !.key = key,
                              !.text = text,
                              !.resp = convert_pdf(registry, env, file, key, text)]
    /\ UNCHANGED <<registry, env, pageVars, normVars, imgVars, tmpVars>>

\* a module is installed or removed, a credential set or unset
EnvChange(d) ==
    /\ env' = IF d \in env THEN env \ {d} ELSE env \cup {d}
    /\ UNCHANGED <<registry, last, pageVars, normVars, imgVars, tmpVars>>

\* the registrations a process makes, over a small choice of classes and of
\* the modules their constructors need
RegClasses == {"MarkerModel", "PyTesseractModel"}

RegDeps == {"pytesseract"}

Next ==
    \/ \E key \in RawKeys, label \in Labels, cls \in RegClasses : Register(key, label, cls)
    \/ \E key \in RawKeys : Resolve(key)
    \/ ListAll
    \/ ListAvailable
    \/ \E d \in RegDeps : EnvChange(d)

Init == RegInit

Spec == Init /\ [][Next]_vars

-----------------------------------------------------------------------------
(* Serving requests with the registry ocr_models.py builds at import *)

\* the @register_model decorators of ocr_models.py, in file order, each taken
\* to run (the optional imports succeed).  The register_factory call of line
\* 53 is left out: ocr_registry.py defines no register_factory.
SourceRegistrations ==
    << [key |-> <<"easyocr_en">>, label |-> <<"E", "asyOCR (en)">>, cls |-> "EasyOCRModel"],
       [key |-> <<"py", "tesseract", "_eng">>, label |-> <<"P", "yTesseract (eng)">>,
        cls |-> "PyTesseractModel"],
       [key |-> <<"openai_vision">>, label |-> <<"O", "penAI Vision OCR">>,
        cls |-> "OpenAIVisionOCRModel"],
       [key |-> <<"marker">>, label |-> <<"M", "arker (PDF -> Markdown)">>,
        cls |-> "MarkerModel"] >>

\* _REGISTRY once ocr_models is imported
ImportedRegistry ==
    LET F[i \in 0..Len(SourceRegistrations)] ==
            IF i = 0 THEN <<>>
            ELSE register_model(F[i - 1], SourceRegistrations[i].key,
                                SourceRegistrations[i].label,
                                SourceRegistrations[i].cls).registry
    IN  F[Len(SourceRegistrations)]

ServeInit ==
    /\ registry = ImportedRegistry
    /\ env = {}
    /\ last = NoCall
    /\ PageIdle
    /\ NormIdle
    /\ ImgIdle
    /\ TmpIdle

ServeNext ==
    \/ \E file \in Files, key \in RequestKeys, text \in Texts : Convert(file, key, text)
    \/ \E key \in RequestKeys : Resolve(key)
    \/ ListAvailable
    \/ \E d \in Deps : EnvChange(d)

ServeSpec == ServeInit /\ [][ServeNext]_vars

-----------------------------------------------------------------------------
(* Properties of the registry *)

\* the step is a call of op (a call that repeats the last call and its outcome
\* changes nothing and is a stuttering step)
IsCall(op) == last' # last /\ last'.op = op

DuplicateError(k) == Raise("ValueError", <<"Model key already registered: ">> \o k)

\* C1: a registration under a key that is already present, keys compared after
\* trimming surrounding whitespace, fails with the duplicate-key error and leaves
\* the registry as it was; over any sequence of calls, a key once registered
\* keeps the class and the label of its first registration, and resolving it
\* constructs that class.
C1_DuplicateKeyRejected ==
    [][ /\ \A k \in RegKeys(registry) :
              /\ HasKey(registry', k)
              /\ Entry(registry', k) = Entry(registry, k)
              /\ create_model(registry', k, env').inst
                    = Construct(Entry(registry, k).cls, env').inst
        /\ (IsCall("register") /\ HasKey(registry, Strip(last'.key)))
              => /\ last'.exc = DuplicateError(Strip(last'.key))
                 /\ registry' = registry ]_vars

\* a padded key was registered a second time, with another class and another
\* label than the ones bound to it, and was refused
C1_Witness ==
    /\ last.op = "register"
    /\ last.exc.type = "ValueError"
    /\ last.key # Strip(last.key)
    /\ HasKey(registry, Strip(last.key))
    /\ Entry(registry, Strip(last.key)).cls # last.cls
    /\ Entry(registry, Strip(last.key)).label # last.label
    /\ Len(registry) >= 2

\* the place of x in s
Pos(s, x) == CHOOSE i \in 1..Len(s) : s[i] = x

Range(s) == {s[i] : i \in 1..Len(s)}

\* the entries of reg whose class constructs in a deployment that lacks e
Constructible(reg, e) ==
    {ModelInfo(reg[i]) : i \in {j \in 1..Len(reg) : Construct(reg[j].cls, e).exc = NoExc}}

\* C2: list_available() returns, without reporting a failure, the ModelInfo of
\* exactly the registered keys whose factory constructs when the listing invokes
\* it, each once, in the order list_all() gives them.
C2_ListAvailable ==
    [][ IsCall("list_available")
          => /\ last'.exc = NoExc
             /\ Range(last'.infos) = Constructible(registry, env)
             /\ Len(last'.infos) = Cardinality(Constructible(registry, env))
             /\ \A i, j \in 1..Len(last'.infos) :
                    i < j => Pos(list_models(registry), last'.infos[i])
                                < Pos(list_models(registry), last'.infos[j]) ]_vars

\* a listing that dropped a registered key whose factory throws and kept two
\* others, in label order and not in registration order
C2_Witness ==
    /\ last.op = "list_available"
    /\ Len(last.infos) = 2
    /\ Len(registry) = 3
    /\ \E i \in 1..3 : Construct(registry[i].cls, env).exc # NoExc
                        /\ ModelInfo(registry[i]) \notin Range(last.infos)
    /\ \E i, j \in 1..3 :
          /\ i < j
          /\ last.infos = <<ModelInfo(registry[j]), ModelInfo(registry[i])>>

-----------------------------------------------------------------------------
(* Properties of the conversion endpoint *)

ValidUpload(file) == file.present /\ EndsWith(Lower(file.name), <<".pdf">>)

\* C3: resolving an unregistered key fails with the unknown-key error, and a
\* request for a registered back-end whose factory fails at construction gets
\* an answer that no request for an unknown key and no extraction failure gets.
C3_UnavailableIsDistinct ==
    [][ /\ (IsCall("resolve") /\ ~HasKey(registry, last'.key))
              => last'.exc.type = "KeyError"
        /\ (/\ IsCall("convert")
            /\ ValidUpload(last'.file)
            /\ HasKey(registry, Strip(last'.key))
            /\ Construct(Entry(registry, Strip(last'.key)).cls, env).exc # NoExc)
              => \A key \in RequestKeys, text \in Texts :
                    (/\ Strip(key) # <<>>
                     /\ \/ ~HasKey(registry, Strip(key))
                        \/ Construct(Entry(registry, Strip(key)).cls, env).exc = NoExc)
                      => convert_pdf(registry, env, last'.file, key, text) # last'.resp
      ]_vars

\* C6: a request carrying a PDF file and a registered key whose extractor
\* constructs is answered with the normalized markdown of what the extractor
\* returns and a non-empty preview, never with an error.
C6_ConversionSucceeds ==
    [][ (/\ IsCall("convert")
         /\ ValidUpload(last'.file)
         /\ HasKey(registry, Strip(last'.key))
         /\ Construct(Entry(registry, Strip(last'.key)).cls, env).exc = NoExc)
          => /\ last'.resp.status = 200
             /\ last'.resp.error = <<>>
             /\ last'.resp.markdown = normalize_markdown_spacing(last'.text)
             /\ last'.resp.preview_html # <<>> ]_vars

-----------------------------------------------------------------------------
(* ocr_models.ImageOCRPDFModel.run_on_pdf: the per-page composition *)

MaxPages == 3

\* what predict_image does on a page: returns a str, returns None, or raises
PageOutcomes ==
    { [kind |-> "str", val |-> <<"A">>],
      [kind |-> "str", val |-> <<"B">>],
      [kind |-> "str", val |-> <<" ", "C", "\n">>],
      [kind |-> "str", val |-> <<>>],
      [kind |-> "none", val |-> <<>>],
      [kind |-> "raise", val |-> <<"engine failed">>] }

DigitChars == <<"0", "1", "2", "3", "4", "5", "6", "7", "8", "9">>

\* str(n) of a natural number: its decimal digits
RECURSIVE IntToStr(_)
IntToStr(n) ==
    IF n < 10 THEN <<DigitChars[n + 1]>>
    ELSE IntToStr(n \div 10) \o <<DigitChars[(n % 10) + 1]>>

\* sep.join(list)
Join(list, sep) ==
    LET F[i \in 0..Len(list)] ==
            IF i = 0 THEN <<>>
            ELSE IF i = 1 THEN list[1]
            ELSE F[i - 1] \o sep \o list[i]
    IN  F[Len(list)]

\* (self.predict_image(str(p)) or "").strip()
PageText(o) == Strip(IF o.kind = "none" THEN <<>> ELSE o.val)

\* f"## Page {idx}\n{t}"
PageBlock(i, t) == <<"## Page ">> \o IntToStr(i) \o <<"\n">> \o t

\* a loop body that numbers a page by its place among the pages kept
LoopBodyRenumbering(o, i, list) ==
    LET t == PageText(o) IN
    IF t # <<>> THEN Append(list, PageBlock(Len(list) + 1, t)) ELSE list

\* the body of the loop over the pages, for a page whose predict_image returned
LoopBody(o, i, list) ==
    LET t == PageText(o) IN
    IF t # <<>> THEN Append(list, PageBlock(i, t)) ELSE list

\* documents of up to MaxPages pages
Documents == UNION {[1..n -> PageOutcomes] : n \in 0..MaxPages}

PageInit ==
    /\ doc \in Documents
    /\ pc = "ready"
    /\ idx = 0
    /\ out = <<>>
    /\ calls = <<>>
    /\ result = <<>>
    /\ RegIdle
    /\ NormIdle
    /\ ImgIdle
    /\ TmpIdle

\* run_on_pdf is entered: the PDF is rasterized, one image per page, the loop starts
StartRun ==
    /\ pc = "ready"
    /\ pc' = "loop"
    /\ idx' = 1
    /\ out' = <<>>
    /\ UNCHANGED <<doc, calls, result, regVars, normVars, imgVars, tmpVars>>

\* one iteration: predict_image on page idx; what it raises leaves run_on_pdf
PredictPage ==
    /\ pc = "loop"
    /\ idx <= Len(doc)
    /\ calls' = Append(calls, idx)
    /\ IF doc[idx].kind = "raise"
       THEN /\ pc' = "raised"
            /\ UNCHANGED <<idx, out>>
       ELSE /\ out' = LoopBody(doc[idx], idx, out)
            /\ idx' = idx + 1
            /\ UNCHANGED pc
    /\ UNCHANGED <<doc, result, regVars, normVars, imgVars, tmpVars>>

\* return "\n\n".join(out).strip()
ReturnJoined ==
    /\ pc = "loop"
    /\ idx > Len(doc)
    /\ result' = Strip(Join(out, <<"\n", "\n">>))
    /\ pc' = "done"
    /\ UNCHANGED <<doc, idx, out, calls, regVars, normVars, imgVars, tmpVars>>

PageNext == StartRun \/ PredictPage \/ ReturnJoined

PageSpec == PageInit /\ [][PageNext]_vars

\* the trimmed text of a page, empty when predict_image gave None or nothing
Trimmed(o) == IF o.kind = "str" THEN Strip(o.val) ELSE <<>>

\* the pages of d with text
Kept(d) == {n \in 1..Len(d) : Trimmed(d[n]) # <<>>}

\* the document the pages of d make: from page n on, a heading and the text
\* of each page with text, a blank line before the next one
ExpectedFrom(d) ==
    [n \in 1..(Len(d) + 1) |->
        LET G[m \in 0..(Len(d) + 1 - n)] ==
                \* the blocks of pages Len(d) - m + 1 .. Len(d)
                IF m = 0 THEN <<>>
                ELSE LET q == Len(d) - m + 1 IN
                     IF q \in Kept(d)
                     THEN <<"## Page ", DigitChars[q + 1], "\n">> \o Trimmed(d[q])
                            \o (IF \E r \in Kept(d) : r > q THEN <<"\n", "\n">> ELSE <<>>)
                            \o G[m - 1]
                     ELSE G[m - 1]
        IN  G[Len(d) + 1 - n]]

\* C4: on an N-page document whose pages all return, predict_image is called
\* once per page in page order, and the document returned is, for exactly the
\* pages whose trimmed output is non-empty, in increasing page number, the
\* block "## Page n" with n the physical page number, then the trimmed text,
\* the blocks separated by a blank line.
C4_PerPageComposition ==
    /\ Len(calls) <= Len(doc)
    /\ \A i \in 1..Len(calls) : calls[i] = i
    /\ pc = "done" => /\ Len(calls) = Len(doc)
                      /\ result = ExpectedFrom(doc)[1]

\* the pages return "A", "", "B": a Page 1 and a Page 3 block and no Page 2 block
C4_Witness ==
    /\ pc = "done"
    /\ Len(doc) = 3
    /\ doc[1] = [kind |-> "str", val |-> <<"A">>]
    /\ doc[2] = [kind |-> "str", val |-> <<>>]
    /\ doc[3] = [kind |-> "str", val |-> <<"B">>]
    /\ result = <<"## Page ", "1", "\n", "A", "\n", "\n", "## Page ", "3", "\n", "B">>

\* C5: when predict_image fails on a page of a multi-page document the run
\* still returns: predict_image was called on every page, the failing page
\* shows as an inline error marker and every other page with text shows as
\* its block.
C5_PageFailureRecovered ==
    (/\ pc \in {"done", "raised"}
     /\ Len(doc) >= 2
     /\ \E n \in 1..Len(doc) : doc[n].kind = "raise")
      => /\ pc = "done"
         /\ Len(calls) = Len(doc)
         /\ \A n \in 1..Len(doc) :
               /\ doc[n].kind = "raise"
                    => Contains(result, <<"[OCR ERROR: ">> \o doc[n].val \o <<"]">>)
               /\ n \in Kept(doc)
                    => Contains(result, <<"## Page ", DigitChars[n + 1], "\n">>
                                           \o Trimmed(doc[n]))

-----------------------------------------------------------------------------
(* views.normalize_markdown_spacing applied, and applied again *)

MaxLen == 5

\* letters, blanks, line endings, U+00A0 and a zero-width character
NormAlphabet == {"a", " ", "\t", "\r", "\n", "NBSP", "ZWSP"}

\* "a\r\nb\r\r\nc\n\n\nd"
MixedEndings ==
    <<"a", "\r", "\n", "b", "\r", "\r", "\n", "c", "\n", "\n", "\n", "d">>

NormInputs == UNION {[1..n -> NormAlphabet] : n \in 0..MaxLen} \cup {MixedEndings}

NormInit ==
    /\ raw \in NormInputs
    /\ stage = 0
    /\ once = <<>>
    /\ twice = <<>>
    /\ RegIdle
    /\ PageIdle
    /\ ImgIdle
    /\ TmpIdle

NormalizeOnce ==
    /\ stage = 0
    /\ once' = normalize_markdown_spacing(raw)
    /\ stage' = 1
    /\ UNCHANGED <<raw, twice, regVars, pageVars, imgVars, tmpVars>>

NormalizeAgain ==
    /\ stage = 1
    /\ twice' = normalize_markdown_spacing(once)
    /\ stage' = 2
    /\ UNCHANGED <<raw, once, regVars, pageVars, imgVars, tmpVars>>

NormNext == NormalizeOnce \/ NormalizeAgain

NormSpec == NormInit /\ [][NormNext]_vars

\* C7: normalize(normalize(x)) = normalize(x) for every text x
C7_NormalizeIdempotent == stage = 2 => twice = once

\* mixed line endings and blank lines, normalized to "a\nb\nc\nd", and again
C7_Witness ==
    /\ stage = 2
    /\ raw = MixedEndings
    /\ once = <<"a", "\n", "b", "\n", "c", "\n", "d">>

-----------------------------------------------------------------------------
(* pdf_to_text_model.py: the direct-document conversion and its image export *)

MinOf(S) == CHOOSE x \in S : \A y \in S : x <= y

\* f"**[IMAGE: {name}]**"
Placeholder(name) == <<"**", "[", "IMAGE:", " ">> \o name \o <<"]", "**">>

\* where the match of r"!\[[^]]*]\([^)<>]*" + re.escape(name) + r"[^)]*\)",
\* case ignored, that starts at place i of s ends; 0 when there is none
TagMatchEnd(s, i, name) ==
    IF ~(i + 1 <= Len(s) /\ s[i] = "!" /\ s[i + 1] = "[") THEN 0
    ELSE LET Closers == {j \in (i + 2)..Len(s) : s[j] = "]"} IN
         IF Closers = {} THEN 0
         ELSE LET j == MinOf(Closers) IN
              IF ~(j + 1 <= Len(s) /\ s[j + 1] = "(") THEN 0
              ELSE LET Parens == {q \in (j + 2)..Len(s) : s[q] = ")"} IN
                   IF Parens = {} THEN 0
                   ELSE LET q == MinOf(Parens) IN
                        IF \E p \in (j + 2)..(q - Len(name)) :
                              /\ Lower(SubSeq(s, p, p + Len(name) - 1)) = Lower(name)
                              /\ \A m \in (j + 2)..(p - 1) : s[m] \notin {"<", ">"}
                        THEN q
                        ELSE 0

\* pattern.sub(f"**[IMAGE: {name}]**", text), from place i on
RECURSIVE SubTags(_, _, _)
SubTags(s, i, name) ==
    IF i > Len(s) THEN <<>>
    ELSE LET e == TagMatchEnd(s, i, name) IN
         IF e > 0 THEN Placeholder(name) \o SubTags(s, e + 1, name)
         ELSE <<s[i]>> \o SubTags(s, i + 1, name)

\* _replace_image_tags_with_placeholders(markdown_text, image_names)
replace_image_tags_with_placeholders(markdown_text, image_names) ==
    LET F[n \in 0..Len(image_names)] ==
            IF n = 0 THEN markdown_text
            ELSE SubTags(F[n - 1], 1, image_names[n])
    IN  F[Len(image_names)]

\* Path(raw_name).name
PathName(raw_name) ==
    LET Slashes == {i \in 1..Len(raw_name) : raw_name[i] = "/"} IN
    IF Slashes = {} THEN raw_name
    ELSE SubSeq(raw_name, (CHOOSE i \in Slashes : \A j \in Slashes : j <= i) + 1,
                Len(raw_name))

ImageSuffixes == {".png", ".jpg", ".jpeg", ".webp"}

\* the filename an image is saved under, n images saved before it
ImageFilename(raw_name, n) ==
    LET base == IF PathName(raw_name) # <<>> THEN PathName(raw_name)
                ELSE <<"image_">> \o IntToStr(n) \o <<".png">>
    IN  IF \E suf \in ImageSuffixes : EndsWith(Lower(base), <<suf>>)
        THEN base
        ELSE base \o <<".png">>

\* settings.PDF_IMAGE_OUTPUT_DIR / uuid4().hex[:10], of this conversion
ExportDir == <<"exported_images", "/", "3f9a1c0b7e">>

\* one pass of the loop over images.items(), with its try/except; st is the
\* locals and the disk
SaveStep(st, image) ==
    IF image.img = "none" THEN st
    ELSE LET dir == IF st.images_dir = <<>> THEN ExportDir ELSE st.images_dir
             made == [st EXCEPT !.images_dir = dir, !.dirs = st.dirs \cup {dir}]
             filename == ImageFilename(image.raw_name, Len(st.saved_names))
         IN  IF image.img = "bad" THEN made
             ELSE [made EXCEPT !.files = made.files \cup {<<dir, filename>>},
                               !.saved_names = Append(made.saved_names, filename)]

\* f"> Images exported to: {images_dir}\n\n"
ProvenanceNote(dir) == <<">", " ", "Images exported to: ">> \o dir \o <<"\n", "\n">>

\* the end of pdf_bytes_to_markdown: the placeholders, then the note
FinishMarkdown(markdown_text, dir, names) ==
    LET replaced == replace_image_tags_with_placeholders(markdown_text, names) IN
    IF dir # <<>> /\ names # <<>> THEN ProvenanceNote(dir) \o replaced ELSE replaced

-----------------------------------------------------------------------------
(* ocr_service.inject_ocr_into_markdown *)

\* ocr_map.get(filename, "")
MapGet(map, filename) ==
    IF \E r \in map : r.name = filename
    THEN (CHOOSE r \in map : r.name = filename).text
    ELSE <<>>

\* str.splitlines(), for "\n" line ends
RECURSIVE SplitLines(_)
SplitLines(s) ==
    LET Breaks == {i \in 1..Len(s) : s[i] = "\n"} IN
    IF s = <<>> THEN <<>>
    ELSE IF Breaks = {} THEN <<s>>
    ELSE LET b == MinOf(Breaks) IN
         <<SubSeq(s, 1, b - 1)>> \o SplitLines(SubSeq(s, b + 1, Len(s)))

\* repl(match) for the placeholder of filename
OcrBlock(filename, map) ==
    LET extracted == Strip(MapGet(map, filename))
        split == SplitLines(extracted)
        quoted == [i \in 1..Len(split) |->
                      IF Strip(split[i]) # <<>> THEN <<">", " ">> \o split[i] ELSE <<">">>]
    IN  IF extracted = <<>>
        THEN Placeholder(filename) \o <<"\n", "\n", ">", " ", "[No text detected]", "\n">>
        ELSE Placeholder(filename) \o <<"\n", "\n">> \o Join(quoted, <<"\n">>) \o <<"\n">>

\* the places w of the "]" that can end a match of
\* r"\*\*\[IMAGE:\s*(.+?)\s*]\*\*" that starts at place i of s: between
\* "IMAGE:" and "]" there is a character for the group, and no line end
\* inside the group
PlaceholderEnds(s, i) ==
    IF ~(i + 2 <= Len(s) /\ s[i] = "**" /\ s[i + 1] = "[" /\ s[i + 2] = "IMAGE:") THEN {}
    ELSE {w \in (i + 4)..(Len(s) - 1) :
            /\ s[w] = "]"
            /\ s[w + 1] = "**"
            /\ \A m \in 1..Len(Strip(SubSeq(s, i + 3, w - 1))) :
                    Strip(SubSeq(s, i + 3, w - 1))[m] # "\n"
            /\ \E m \in (i + 3)..(w - 1) : s[m] # "\n"}

\* _PLACEHOLDER_RE.sub(repl, markdown_text), from place i on
RECURSIVE InjectFrom(_, _, _)
InjectFrom(s, i, map) ==
    IF i > Len(s) THEN <<>>
    ELSE IF PlaceholderEnds(s, i) # {}
    THEN LET w == MinOf(PlaceholderEnds(s, i)) IN
         OcrBlock(Strip(SubSeq(s, i + 3, w - 1)), map) \o InjectFrom(s, w + 2, map)
    ELSE <<s[i]>> \o InjectFrom(s, i + 1, map)

\* inject_ocr_into_markdown(markdown_text, ocr_map)
inject_ocr_into_markdown(markdown_text, map) == InjectFrom(markdown_text, 1, map)

-----------------------------------------------------------------------------
(* A direct-document conversion, then the OCR overlay *)

MaxImages == 2

\* the keys of the converter's images dict
RawNames == { <<"a", ".png">>, <<"b", "a", ".png">>, <<"c">>, <<>> }

\* an image: None, one that saves, one whose save raises
ImageKinds == {"none", "ok", "bad"}

\* dicts of up to MaxImages images, in insertion order, their keys distinct
ImageDicts ==
    UNION { {d \in [1..n -> [raw_name : RawNames, img : ImageKinds]] :
                \A i, j \in 1..n : i # j => d[i].raw_name # d[j].raw_name}
            : n \in 0..MaxImages }

TextPiece(t) == [kind |-> "text", alt |-> <<>>, val |-> t]

RefPiece(alt, target) == [kind |-> "ref", alt |-> alt, val |-> target]

\* the markdown the converter produces: text and image references
MarkdownDocs ==
    { <<TextPiece(<<"Only text.">>)>>,
      <<RefPiece(<<"alt">>, <<"a", ".png">>)>>,
      <<RefPiece(<<>>, <<"b", "a", ".png">>)>>,
      <<TextPiece(<<"Intro", "\n", "\n">>), RefPiece(<<"x">>, <<"d", "/", "a", ".png">>),
        TextPiece(<<"\n">>), RefPiece(<<"y">>, <<"c", ".png">>)>>,
      <<RefPiece(<<"x">>, <<"a", ".png">>), TextPiece(<<" ", "and", " ">>),
        RefPiece(<<"y">>, <<"b", "a", ".png">>)>> }

\* the markdown text of a piece
Render(p) ==
    IF p.kind = "text" THEN p.val
    ELSE <<"!", "[">> \o p.alt \o <<"]", "(">> \o p.val \o <<")">>

RenderAll(ps) ==
    LET F[n \in 0..Len(ps)] == IF n = 0 THEN <<>> ELSE F[n - 1] \o Render(ps[n])
    IN  F[Len(ps)]

\* what OCR of a saved image gives
OcrTexts == { <<"Hello">>, <<"Hi", "\n", "\n", "you">>, <<" ">>, <<>> }

\* the maps ocr_export_images can hand over: no entry, or one text per saved image
OcrMaps(names) ==
    {{}} \cup {{[name |-> names[i], text |-> t] : i \in 1..Len(names)} : t \in OcrTexts}

ImgInit ==
    /\ pieces \in MarkdownDocs
    /\ images \in ImageDicts
    /\ ipc = "ready"
    /\ pos = 0
    /\ images_dir = <<>>
    /\ dirs = {}
    /\ files = {}
    /\ saved_names = <<>>
    /\ converted = <<>>
    /\ ocr_map = {}
    /\ injected = <<>>
    /\ RegIdle
    /\ PageIdle
    /\ NormIdle
    /\ TmpIdle

\* pdf_bytes_to_markdown is entered; the converter renders the PDF
BeginConversion ==
    /\ ipc = "ready"
    /\ ipc' = "saving"
    /\ pos' = 1
    /\ UNCHANGED <<pieces, images, images_dir, dirs, files, saved_names, converted,
                   ocr_map, injected, regVars, pageVars, normVars, tmpVars>>

\* one image of the dict
SaveImage ==
    /\ ipc = "saving"
    /\ pos <= Len(images)
    /\ LET st == SaveStep([images_dir |-> images_dir, dirs |-> dirs, files |-> files,
                           saved_names |-> saved_names], images[pos])
       IN  /\ images_dir' = st.images_dir
           /\ dirs' = st.dirs
           /\ files' = st.files
           /\ saved_names' = st.saved_names
    /\ pos' = pos + 1
    /\ UNCHANGED <<pieces, images, ipc, converted, ocr_map, injected,
                   regVars, pageVars, normVars, tmpVars>>

\* the references are rewritten, the note prepended, the markdown returned
FinishConversion ==
    /\ ipc = "saving"
    /\ pos > Len(images)
    /\ converted' = FinishMarkdown(RenderAll(pieces), images_dir, saved_names)
    /\ ipc' = "done"
    /\ UNCHANGED <<pieces, images, pos, images_dir, dirs, files, saved_names,
                   ocr_map, injected, regVars, pageVars, normVars, tmpVars>>

\* the OCR texts of the exported images are folded into the markdown
InjectOcr(map) ==
    /\ ipc = "done"
    /\ ocr_map' = map
    /\ injected' = inject_ocr_into_markdown(converted, map)
    /\ ipc' = "injected"
    /\ UNCHANGED <<pieces, images, pos, images_dir, dirs, files, saved_names,
                   converted, regVars, pageVars, normVars, tmpVars>>

ImgNext ==
    \/ BeginConversion
    \/ SaveImage
    \/ FinishConversion
    \/ \E map \in OcrMaps(saved_names) : InjectOcr(map)

ImgSpec == ImgInit /\ [][ImgNext]_vars

-----------------------------------------------------------------------------
(* Properties of the direct-document conversion *)

Returned == ipc \in {"done", "injected"}

\* what a piece of the converter's markdown may become: a reference whose
\* target filename is a saved image name becomes the placeholder of that name
ClaimedPiece(p, names) ==
    IF p.kind = "text" THEN {p.val}
    ELSE IF PathName(p.val) \in Range(names) THEN {Placeholder(PathName(p.val))}
    ELSE {Render(p)} \cup {Placeholder(n) : n \in Range(names)}

ClaimedBodies(ps, names) ==
    LET F[n \in 0..Len(ps)] ==
            IF n = 0 THEN {<<>>}
            ELSE {x \o y : x \in F[n - 1], y \in ClaimedPiece(ps[n], names)}
    IN  F[Len(ps)]

\* the blockquote of the text the map has for a name
ClaimedQuote(map, name) ==
    LET t == MapGet(map, name)
        split == SplitLines(t)
    IN  IF \A i \in 1..Len(t) : IsSpace(t[i])
        THEN <<">", " ", "[No text detected]">>
        ELSE Join([i \in 1..Len(split) |->
                      IF \A m \in 1..Len(split[i]) : IsSpace(split[i][m])
                      THEN <<">">>
                      ELSE <<">", " ">> \o split[i]],
                  <<"\n">>)

\* C8: in the markdown a conversion returns, every image reference whose
\* target filename is a saved image name has become exactly the placeholder
\* of that name; and the OCR overlay keeps each placeholder and puts below it
\* the blockquote of the map's text for its name, one line per line of the
\* text, or "> [No text detected]" when there is no text.
C8_PlaceholderRoundTrip ==
    /\ Returned =>
          \E b \in ClaimedBodies(pieces, saved_names) :
              converted \in {b, ProvenanceNote(ExportDir) \o b}
    /\ ipc = "injected" =>
          \A i \in 1..Len(saved_names) :
              Contains(converted, Placeholder(saved_names[i]))
                => Contains(injected,
                            Placeholder(saved_names[i]) \o <<"\n", "\n">>
                              \o ClaimedQuote(ocr_map, saved_names[i]) \o <<"\n">>)

\* C9: when the save of an image fails, the conversion still returns the
\* text, the filename of that image is not among the saved names, and a
\* reference to it stands in the returned markdown as it was.
C9_FailedImageLeftUnresolved ==
    Returned =>
       \A i \in 1..Len(images) :
          (images[i].img = "bad" /\ images[i].raw_name # <<>>)
            => /\ ImageFilename(images[i].raw_name, 0) \notin Range(saved_names)
               /\ \A j \in 1..Len(pieces) :
                     /\ pieces[j].kind = "text" => Contains(converted, pieces[j].val)
                     /\ (/\ pieces[j].kind = "ref"
                         /\ PathName(pieces[j].val) = ImageFilename(images[i].raw_name, 0))
                          => Contains(converted, Render(pieces[j]))

HasNote(s) == Len(s) >= 3 /\ SubSeq(s, 1, 3) = <<">", " ", "Images exported to: ">>

\* C10: when a conversion that saved no image returns, its export directory
\* does not exist; and the note naming the directory is in the markdown only
\* when an image was saved.
C10_ExportDirOnlyWhenSaved ==
    Returned =>
       /\ saved_names = <<>> => ExportDir \notin dirs
       /\ HasNote(converted) => saved_names # <<>>


-----------------------------------------------------------------------------
(* temporary storage of a conversion call: the temp PDF copy of               *)
(* pdf_models_marker.marker_pdf_bytes_to_markdown and of                      *)
(* pdf_to_text_model.pdf_bytes_to_markdown, the temporary directory of page   *)
(* images of ocr_models.ImageOCRPDFModel.run_on_pdf.                          *)
(*                                                                            *)
(* A path is the sequence of its components below the system's temporary      *)
(* directory; temps is the set of the paths that exist.                       *)

\* the conversion functions that allocate temporary storage
DirectFunctions == {"marker_pdf_bytes_to_markdown", "pdf_bytes_to_markdown"}

Functions == DirectFunctions \union {"run_on_pdf"}

\* the random names tempfile draws; it takes one that does not exist
TempNames == {<<"tmpa">>, <<"tmpb">>}

\* the path NamedTemporaryFile(suffix=".pdf") creates under the name n
TempPdf(n) == <<n \o <<".pdf">>>>

\* the path TemporaryDirectory() creates under the name n
TempDir(n) == <<n>>

\* os.path.exists(path)
exists(path, disk) == path \in disk

\* f"{n:03d}"
Pad3(n) ==
    LET s == IntToStr(n) IN
    [k \in 1..(3 - Len(s)) |-> "0"] \o s

\* out_dir / f"page_{i + 1:03d}.png", i counted from 0
PageImage(out_dir, i) == Append(out_dir, <<"page_">> \o Pad3(i + 1) \o <<".png">>)

\* path is dir or lies below it
Below(path, dir) == Len(path) >= Len(dir) /\ SubSeq(path, 1, Len(dir)) = dir

\* a cleanup that removes the directory entry and leaves what lies below it
rmdir_only(dir, disk) == disk \ {dir}

\* TemporaryDirectory.cleanup(): the directory and everything below it go
rmtree(dir, disk) == {p \in disk : ~Below(p, dir)}

\* the finally clause of the two direct functions:
\* if tmp_path and os.path.exists(tmp_path): os.remove(tmp_path)
RemoveTmp(path, disk) ==
    IF path # <<>> /\ exists(path, disk) THEN disk \ {path} ELSE disk

TempInit ==
    /\ doc \in Documents
    /\ pc = "off"
    /\ idx = 0
    /\ out = <<>>
    /\ calls = <<>>
    /\ result = <<>>
    /\ TmpIdle
    /\ RegIdle
    /\ NormIdle
    /\ ImgIdle

\* a conversion function is called on the PDF (doc says what each of its pages
\* will do to predict_image); an earlier call, if any, has ended
BeginCall ==
    /\ tpc \in {"off", "done"}
    /\ \E f \in Functions : fn' = f
    /\ tpc' = "try"
    /\ tmp_path' = <<>>
    /\ td' = <<>>
    /\ pages' = <<>>
    /\ exit' = ""
    /\ pc' = "ready"
    /\ idx' = 0
    /\ out' = <<>>
    /\ calls' = <<>>
    /\ result' = <<>>
    /\ UNCHANGED <<doc, temps, regVars, normVars, imgVars>>

\* with tempfile.NamedTemporaryFile(suffix=".pdf", delete=False) as f:
\*     tmp_path = f.name
\* the file is created, or the creation raises and no path was bound
CreateTempFile ==
    /\ tpc = "try"
    /\ fn \in DirectFunctions
    /\ \/ \E n \in TempNames :
             /\ ~exists(TempPdf(n), temps)
             /\ temps' = temps \union {TempPdf(n)}
             /\ tmp_path' = TempPdf(n)
             /\ tpc' = "write"
             /\ UNCHANGED exit
       \/ /\ tpc' = "finally"
          /\ exit' = "raise"
          /\ UNCHANGED <<temps, tmp_path>>
    /\ UNCHANGED <<fn, td, pages, regVars, pageVars, normVars, imgVars>>

\* f.write(pdf_bytes), and the with block closes the file; the write may raise
WriteBytes ==
    /\ tpc = "write"
    /\ \/ /\ tpc' = "convert"
          /\ UNCHANGED exit
       \/ /\ tpc' = "finally"
          /\ exit' = "raise"
    /\ UNCHANGED <<fn, tmp_path, td, pages, temps, regVars, pageVars, normVars,
                   imgVars>>

\* the rest of the try body: _converter(tmp_path), text_from_rendered and, in
\* pdf_bytes_to_markdown, the image export; it returns or it raises, and none
\* of it creates or removes a temporary path
ConvertDocument ==
    /\ tpc = "convert"
    /\ \E e \in {"return", "raise"} : exit' = e
    /\ tpc' = "finally"
    /\ UNCHANGED <<fn, tmp_path, td, pages, temps, regVars, pageVars, normVars,
                   imgVars>>

\* finally: the temp PDF is removed, and the call ends
FinallyClause ==
    /\ tpc = "finally"
    /\ temps' = RemoveTmp(tmp_path, temps)
    /\ tpc' = "done"
    /\ UNCHANGED <<fn, tmp_path, td, pages, exit, regVars, pageVars, normVars,
                   imgVars>>

\* with tempfile.TemporaryDirectory() as td: the directory is created, or the
\* creation raises and run_on_pdf ends with nothing allocated
EnterTemporaryDirectory ==
    /\ tpc = "try"
    /\ fn = "run_on_pdf"
    /\ \/ \E n \in TempNames :
             /\ ~exists(TempDir(n), temps)
             /\ temps' = temps \union {TempDir(n)}
             /\ td' = TempDir(n)
             /\ tpc' = "open"
             /\ UNCHANGED exit
       \/ /\ tpc' = "done"
          /\ exit' = "raise"
          /\ UNCHANGED <<temps, td>>
    /\ UNCHANGED <<fn, tmp_path, pages, regVars, pageVars, normVars, imgVars>>

\* pdf_bytes_to_page_images: out_dir.mkdir(parents=True, exist_ok=True) and
\* fitz.open(stream=pdf_bytes); a PDF that cannot be opened raises
OpenDocument ==
    /\ tpc = "open"
    /\ temps' = temps \union {td}
    /\ \/ /\ tpc' = "rasterize"
          /\ UNCHANGED exit
       \/ /\ tpc' = "exit"
          /\ exit' = "raise"
    /\ UNCHANGED <<fn, tmp_path, td, pages, regVars, pageVars, normVars, imgVars>>

\* one iteration of the loop over the pages of the PDF: the page is rendered and
\* saved as the next page image; get_pixmap may raise, and pix.save may raise
\* with the file written in part or not at all
RasterizePage ==
    /\ tpc = "rasterize"
    /\ Len(pages) < Len(doc)
    /\ LET p == PageImage(td, Len(pages)) IN
       \/ /\ temps' = temps \union {p}
          /\ pages' = Append(pages, p)
          /\ UNCHANGED <<tpc, exit>>
       \/ /\ temps' \in {temps, temps \union {p}}
          /\ tpc' = "exit"
          /\ exit' = "raise"
          /\ UNCHANGED pages
    /\ UNCHANGED <<fn, tmp_path, td, regVars, pageVars, normVars, imgVars>>

\* pdf_bytes_to_page_images returns pages; out = [] and the loop over the pages
\* starts at idx 1
EnterLoop ==
    /\ tpc = "rasterize"
    /\ Len(pages) = Len(doc)
    /\ tpc' = "body"
    /\ pc' = "loop"
    /\ idx' = 1
    /\ out' = <<>>
    /\ UNCHANGED <<doc, calls, result, fn, tmp_path, td, pages, temps, exit,
                   regVars, normVars, imgVars>>

\* the with block is left, by the return, by what predict_image raised or by
\* what the rasterization raised: the directory is cleaned up, the call ends
ExitTemporaryDirectory ==
    /\ \/ tpc = "exit" /\ UNCHANGED exit
       \/ tpc = "body" /\ pc = "done" /\ exit' = "return"
       \/ tpc = "body" /\ pc = "raised" /\ exit' = "raise"
    /\ temps' = rmtree(td, temps)
    /\ tpc' = "done"
    /\ UNCHANGED <<fn, tmp_path, td, pages, regVars, pageVars, normVars, imgVars>>

TempNext ==
    \/ BeginCall
    \/ CreateTempFile
    \/ WriteBytes
    \/ ConvertDocument
    \/ FinallyClause
    \/ EnterTemporaryDirectory
    \/ OpenDocument
    \/ RasterizePage
    \/ EnterLoop
    \/ PredictPage
    \/ ReturnJoined
    \/ ExitTemporaryDirectory

TempSpec == TempInit /\ [][TempNext]_vars

====
